---- MODULE Spec2Model ----
(***************************************************************************)
(* Model of maestral's query builder (maestral/database/query.py) and of   *)
(* its platform directory lookup (maestral/utils/appdirs.py).              *)
(*                                                                         *)
(* Python values are represented as follows:                               *)
(*   str used as SQL text      a TLA+ string                               *)
(*   str used as a path        a sequence of Unicode code points           *)
(*   bytes                     a sequence of byte values 0..255            *)
(*   a bound SQL argument      [bytes |-> b], [int |-> n] or the record    *)
(*                             returned by py_to_sql                       *)
(*   an object                 a record with its attributes plus id, the   *)
(*                             object's identity                           *)
(*   a call's outcome          a record with op, raised ("" when the call  *)
(*                             returned) and the returned values           *)
(***************************************************************************)
EXTENDS Integers, Sequences, FiniteSets, TLC

VARIABLES
    stack,     \* predicate objects built and not yet passed to a combinator
    next_id,   \* identity of the next object allocated
    result,    \* outcome of the latest call
    root,      \* the path the caller asks the subtree of (SpecPath)
    platform,  \* platform.system()
    environ,   \* names of the environment variables that are set
    dirs       \* the directories that exist

vars == <<stack, next_id, result, root, platform, environ, dirs>>

(***************************************************************************)
(* Bounds                                                                  *)
(***************************************************************************)
\* The largest number of predicate objects a caller builds in one session.
MaxNodes == 4
\* The longest root path given to PathTreeQuery in SpecPath.
MaxRootLen == 4
\* A stored path is a prefix of the root followed by at most this many
\* further characters more than the root bound.
MaxStoredLen == MaxRootLen + 2

(***************************************************************************)
(* Columns (maestral.database.orm.Column, consumed by query.py)            *)
(***************************************************************************)
PathColumn == [name |-> "path", type |-> "SqlPath"]
SizeColumn == [name |-> "size", type |-> "SqlInt"]
Columns == {PathColumn, SizeColumn}

\* Column.py_to_sql: the column type's conversion of a Python value to the
\* value stored by SQLite. The result is tagged with the converting type.
py_to_sql(column, value) == [sql |-> value, by |-> column.type]

(***************************************************************************)
(* Paths and their encoding                                                *)
(***************************************************************************)
\* b"/" on POSIX, the separator os.path.join inserts.
Sep == 47

\* Code points of "/", "a", "b", "c" and the two-byte "e acute".
PathChars == {47, 97, 98, 99, 233}

\* "/sync/docs"
SyncDocs == <<47, 115, 121, 110, 99, 47, 100, 111, 99, 115>>

\* UTF-8 encoding of one code point below U+0800.
EncodeChar(cp) ==
    IF cp < 128 THEN <<cp>>
    ELSE <<192 + (cp \div 64), 128 + (cp % 64)>>

\* os.fsencode(path): str -> bytes in the file system encoding (UTF-8).
RECURSIVE fsencode(_)
fsencode(path) ==
    IF path = <<>> THEN <<>>
    ELSE EncodeChar(Head(path)) \o fsencode(Tail(path))

\* Variant: the separator is appended unconditionally.
os_path_join_always_sep(a, b) == a \o <<Sep>> \o b

\* os.path.join(a, b) of posixpath for two byte strings.
os_path_join(a, b) ==
    IF b # <<>> /\ Head(b) = Sep THEN b
    ELSE IF a = <<>> \/ a[Len(a)] = Sep THEN a \o b
    ELSE a \o <<Sep>> \o b

(***************************************************************************)
(* Predicate objects (query.py)                                            *)
(***************************************************************************)
CollectionKinds == {"AndQuery", "OrQuery", "CollectionQuery"}

\* Query(): the base class defines no __init__ and can be instantiated.
Query(id) == [id |-> id, kind |-> "Query"]

AllQuery(id) == [id |-> id, kind |-> "AllQuery"]

MatchQuery(id, column, value) ==
    [id |-> id, kind |-> "MatchQuery", column |-> column, value |-> value]

\* Variant: the column's type is not checked.
PathTreeQuery_init_unchecked(id, column, path) ==
    [raised |-> "",
     self |-> [id |-> id, kind |-> "PathTreeQuery", column |-> column,
               file_blob |-> fsencode(path),
               dir_blob |-> os_path_join(fsencode(path), <<>>)]]

\* PathTreeQuery.__init__: raises before any attribute is set when the
\* column's type is not SqlPath.
PathTreeQuery_init(id, column, path) ==
    IF column.type # "SqlPath"
    THEN [raised |-> "ValueError"]
    ELSE [raised |-> "",
          self |-> [id |-> id, kind |-> "PathTreeQuery", column |-> column,
                    file_blob |-> fsencode(path),
                    dir_blob |-> os_path_join(fsencode(path), <<>>)]]

\* CollectionQuery.__init__, inherited unchanged by AndQuery and OrQuery.
CollectionQuery(id, kind, subqueries) ==
    [id |-> id, kind |-> kind, subqueries |-> subqueries]

NotQuery(id, subquery) == [id |-> id, kind |-> "NotQuery", subquery |-> subquery]

\* A predicate tree without its objects' identities: two trees have the
\* same Shape exactly when they are structurally identical.
RECURSIVE Shape(_)
RECURSIVE ShapeAll(_)
Shape(q) ==
    IF q.kind \in CollectionKinds
    THEN [q EXCEPT !.id = 0, !.subqueries = ShapeAll(q.subqueries)]
    ELSE IF q.kind = "NotQuery"
    THEN [q EXCEPT !.id = 0, !.subquery = Shape(q.subquery)]
    ELSE [q EXCEPT !.id = 0]
ShapeAll(qs) ==
    IF qs = <<>> THEN <<>> ELSE <<Shape(Head(qs))>> \o ShapeAll(Tail(qs))

\* The number of objects of a predicate tree.
RECURSIVE NodeCount(_)
RECURSIVE NodeCountAll(_)
NodeCount(q) ==
    IF q.kind \in CollectionKinds THEN 1 + NodeCountAll(q.subqueries)
    ELSE IF q.kind = "NotQuery" THEN 1 + NodeCount(q.subquery)
    ELSE 1
NodeCountAll(qs) ==
    IF qs = <<>> THEN 0 ELSE NodeCount(Head(qs)) + NodeCountAll(Tail(qs))

(***************************************************************************)
(* clause()                                                                *)
(***************************************************************************)
\* str.join
RECURSIVE str_join(_, _)
str_join(sep, parts) ==
    IF parts = <<>> THEN ""
    ELSE IF Len(parts) = 1 THEN parts[1]
    ELSE parts[1] \o sep \o str_join(sep, Tail(parts))

Raise(exc) == [raised |-> exc, text |-> "", args |-> <<>>]

Query_clause(self) == Raise("NotImplementedError")

\* Variant: the prefix compared is the path itself, without the separator.
PathTreeQuery_clause_file_prefix(self) ==
    [raised |-> "",
     text |-> "(" \o self.column.name \o " = ? OR substr("
                  \o self.column.name \o ", 1, ?) = ?)",
     args |-> <<[bytes |-> self.file_blob],
                [int |-> Len(self.file_blob)],
                [bytes |-> self.file_blob]>>]

PathTreeQuery_clause(self) ==
    [raised |-> "",
     text |-> "(" \o self.column.name \o " = ? OR substr("
                  \o self.column.name \o ", 1, ?) = ?)",
     args |-> <<[bytes |-> self.file_blob],
                [int |-> Len(self.dir_blob)],
                [bytes |-> self.dir_blob]>>]

MatchQuery_clause(self) ==
    [raised |-> "",
     text |-> self.column.name \o " = ?",
     args |-> <<py_to_sql(self.column, self.value)>>]

AllQuery_clause(self) == [raised |-> "", text |-> "TRUE", args |-> <<>>]

RECURSIVE clause(_)
RECURSIVE clause_loop(_, _)

\* Variant: each subquery's values are put in front of those collected.
clause_loop_prepends(subqueries, i) ==
    IF i > Len(subqueries)
    THEN [raised |-> "", clause_parts |-> <<>>, subvals |-> <<>>]
    ELSE LET sub == clause(subqueries[i])
             rest == clause_loop(subqueries, i + 1)
         IN  IF sub.raised # ""
             THEN [raised |-> sub.raised, clause_parts |-> <<>>, subvals |-> <<>>]
             ELSE IF rest.raised # "" THEN rest
             ELSE [raised |-> "",
                   clause_parts |-> <<"(" \o sub.text \o ")">> \o rest.clause_parts,
                   subvals |-> rest.subvals \o sub.args]

\* The for loop of clause_with_joiner over subqueries[i..]: the parenthesised
\* clauses and the accumulated subvals, or the exception of the first
\* subquery whose clause() raises.
clause_loop(subqueries, i) ==
    IF i > Len(subqueries)
    THEN [raised |-> "", clause_parts |-> <<>>, subvals |-> <<>>]
    ELSE LET sub == clause(subqueries[i])
             rest == clause_loop(subqueries, i + 1)
         IN  IF sub.raised # ""
             THEN [raised |-> sub.raised, clause_parts |-> <<>>, subvals |-> <<>>]
             ELSE IF rest.raised # "" THEN rest
             ELSE [raised |-> "",
                   clause_parts |-> <<"(" \o sub.text \o ")">> \o rest.clause_parts,
                   subvals |-> sub.args \o rest.subvals]

clause_with_joiner(self, joiner) ==
    LET loop == clause_loop(self.subqueries, 1)
    IN  IF loop.raised # "" THEN Raise(loop.raised)
        ELSE [raised |-> "",
              text |-> str_join(" " \o joiner \o " ", loop.clause_parts),
              args |-> loop.subvals]

\* Variant: the abstract class joins its subqueries instead of raising.
CollectionQuery_clause_joins(self) == clause_with_joiner(self, "")

CollectionQuery_clause(self) == Raise("NotImplementedError")

\* Variant: the conjunction joins with the disjunction's keyword.
AndQuery_clause_or_joiner(self) == clause_with_joiner(self, "OR")

AndQuery_clause(self) == clause_with_joiner(self, "AND")

OrQuery_clause(self) == clause_with_joiner(self, "OR")

\* Variant: the negation wraps an empty clause too.
NotQuery_clause_always_wraps(self) ==
    LET sub == clause(self.subquery)
    IN  IF sub.raised # "" THEN sub
        ELSE [raised |-> "", text |-> "not (" \o sub.text \o ")", args |-> sub.args]

\* Variant: the negated clause is not parenthesised.
NotQuery_clause_no_parens(self) ==
    LET sub == clause(self.subquery)
    IN  IF sub.raised # "" THEN sub
        ELSE IF sub.text # ""
        THEN [raised |-> "", text |-> "not " \o sub.text, args |-> sub.args]
        ELSE [raised |-> "", text |-> sub.text, args |-> sub.args]

NotQuery_clause(self) ==
    LET sub == clause(self.subquery)
    IN  IF sub.raised # "" THEN sub
        ELSE IF sub.text # ""
        THEN [raised |-> "", text |-> "not (" \o sub.text \o ")", args |-> sub.args]
        ELSE [raised |-> "", text |-> sub.text, args |-> sub.args]

\* Method dispatch on the object's class.
clause(q) ==
    CASE q.kind = "Query" -> Query_clause(q)
      [] q.kind = "PathTreeQuery" -> PathTreeQuery_clause(q)
      [] q.kind = "MatchQuery" -> MatchQuery_clause(q)
      [] q.kind = "AllQuery" -> AllQuery_clause(q)
      [] q.kind = "CollectionQuery" -> CollectionQuery_clause(q)
      [] q.kind = "AndQuery" -> AndQuery_clause(q)
      [] q.kind = "OrQuery" -> OrQuery_clause(q)
      [] q.kind = "NotQuery" -> NotQuery_clause(q)

(***************************************************************************)
(* CollectionQuery's sequence protocol                                     *)
(***************************************************************************)
\* object.__eq__: the predicate classes define no __eq__, so == is identity.
object_eq(a, b) == a.id = b.id

CollectionQuery_len(self) == Len(self.subqueries)

\* tuple.__getitem__ with a 0-based int key; negative keys count from the end.
CollectionQuery_getitem(self, key) ==
    LET n == Len(self.subqueries)
    IN  IF key >= 0 /\ key < n
        THEN [raised |-> "", value |-> <<self.subqueries[key + 1]>>]
        ELSE IF key < 0 /\ key >= -n
        THEN [raised |-> "", value |-> <<self.subqueries[n + key + 1]>>]
        ELSE [raised |-> "IndexError", value |-> <<>>]

\* iter(tuple) run to exhaustion from position i: the items it yields.
RECURSIVE tuple_iter(_, _)
tuple_iter(t, i) ==
    IF i > Len(t) THEN <<>> ELSE <<t[i]>> \o tuple_iter(t, i + 1)

CollectionQuery_iter(self) == tuple_iter(self.subqueries, 1)

\* Variant: membership by structural equality.
CollectionQuery_contains_structural(self, item) ==
    \E i \in 1..Len(self.subqueries) : Shape(self.subqueries[i]) = Shape(item)

\* item in tuple
CollectionQuery_contains(self, item) ==
    \E i \in 1..Len(self.subqueries) : object_eq(self.subqueries[i], item)

(***************************************************************************)
(* Spec: a caller builds predicates bottom-up and calls their methods.     *)
(* stack holds the objects built and not yet passed to a combinator, in    *)
(* construction order; result is the outcome of the latest call.           *)
(***************************************************************************)
\* The root paths and match values used when building trees.
TreePaths == {SyncDocs}
MatchValues == {0}

NoResult == [op |-> "", raised |-> ""]

\* Directories as sequences of names below "/". The home directory is one
\* get_home_dir found to exist; the temporary directory exists as well.
HomeDir == <<"home">>
TmpDir == <<"tmp">>
InitialDirs == {<<>>, HomeDir, TmpDir}

Init ==
    /\ stack = <<>>
    /\ next_id = 1
    /\ result = NoResult
    /\ root = <<>>
    /\ platform = "Linux"
    /\ environ = {}
    /\ dirs = InitialDirs

CanAllocate == NodeCountAll(stack) < MaxNodes

Push(q, op) ==
    /\ stack' = Append(stack, q)
    /\ next_id' = next_id + 1
    /\ result' = [op |-> op, raised |-> ""]
    /\ UNCHANGED <<root, platform, environ, dirs>>

NewQuery ==
    /\ CanAllocate
    /\ Push(Query(next_id), "Query")

NewAllQuery ==
    /\ CanAllocate
    /\ Push(AllQuery(next_id), "AllQuery")

NewMatchQuery ==
    /\ CanAllocate
    /\ \E value \in MatchValues :
          Push(MatchQuery(next_id, SizeColumn, value), "MatchQuery")

NewPathTreeQuery ==
    /\ CanAllocate
    /\ \E column \in Columns, path \in TreePaths :
          LET r == PathTreeQuery_init(next_id, column, path)
          IN  IF r.raised # ""
              THEN /\ result' = [op |-> "PathTreeQuery", raised |-> r.raised,
                                 column |-> column]
                   /\ UNCHANGED <<stack, next_id, root, platform, environ, dirs>>
              ELSE /\ stack' = Append(stack, r.self)
                   /\ next_id' = next_id + 1
                   /\ result' = [op |-> "PathTreeQuery", raised |-> "",
                                 column |-> column]
                   /\ UNCHANGED <<root, platform, environ, dirs>>

\* kind(*subqueries) with the n most recently built objects as subqueries.
NewCollection(kind) ==
    /\ CanAllocate
    /\ \E n \in 0..Len(stack) :
          LET keep == Len(stack) - n
          IN  /\ stack' = Append(SubSeq(stack, 1, keep),
                                 CollectionQuery(next_id, kind,
                                                 SubSeq(stack, keep + 1, Len(stack))))
              /\ next_id' = next_id + 1
              /\ result' = [op |-> kind, raised |-> ""]
              /\ UNCHANGED <<root, platform, environ, dirs>>

NewCollectionQuery == NewCollection("CollectionQuery")

NewAndQuery == NewCollection("AndQuery")

NewOrQuery == NewCollection("OrQuery")

NewNotQuery ==
    /\ CanAllocate
    /\ stack # <<>>
    /\ stack' = Append(SubSeq(stack, 1, Len(stack) - 1),
                       NotQuery(next_id, stack[Len(stack)]))
    /\ next_id' = next_id + 1
    /\ result' = [op |-> "NotQuery", raised |-> ""]
    /\ UNCHANGED <<root, platform, environ, dirs>>

\* root.clause() on the finished tree.
Clause ==
    /\ Len(stack) = 1
    /\ LET r == clause(stack[1])
       IN  result' = [op |-> "clause", self |-> stack[1], raised |-> r.raised,
                      text |-> r.text, args |-> r.args]
    /\ UNCHANGED <<stack, next_id, root, platform, environ, dirs>>

IsCollectionRoot == Len(stack) = 1 /\ stack[1].kind \in CollectionKinds

SeqLen ==
    /\ IsCollectionRoot
    /\ result' = [op |-> "__len__", self |-> stack[1], raised |-> "",
                  value |-> CollectionQuery_len(stack[1])]
    /\ UNCHANGED <<stack, next_id, root, platform, environ, dirs>>

SeqGetItem ==
    /\ IsCollectionRoot
    /\ \E key \in -1..Len(stack[1].subqueries) :
          LET r == CollectionQuery_getitem(stack[1], key)
          IN  result' = [op |-> "__getitem__", self |-> stack[1], key |-> key,
                         raised |-> r.raised, value |-> r.value]
    /\ UNCHANGED <<stack, next_id, root, platform, environ, dirs>>

SeqIter ==
    /\ IsCollectionRoot
    /\ result' = [op |-> "__iter__", self |-> stack[1], raised |-> "",
                  value |-> CollectionQuery_iter(stack[1])]
    /\ UNCHANGED <<stack, next_id, root, platform, environ, dirs>>

\* item in collection, where item is one of the collection's own subqueries
\* or an object built separately after the collection.
SeqContains ==
    /\ Len(stack) \in {1, 2}
    /\ stack[1].kind \in CollectionKinds
    /\ \E item \in {stack[1].subqueries[i] : i \in 1..Len(stack[1].subqueries)}
                   \cup {stack[i] : i \in 2..Len(stack)} :
          result' = [op |-> "__contains__", self |-> stack[1], item |-> item,
                     raised |-> "",
                     value |-> CollectionQuery_contains(stack[1], item)]
    /\ UNCHANGED <<stack, next_id, root, platform, environ, dirs>>

Next ==
    \/ NewQuery
    \/ NewAllQuery
    \/ NewMatchQuery
    \/ NewPathTreeQuery
    \/ NewCollectionQuery
    \/ NewAndQuery
    \/ NewOrQuery
    \/ NewNotQuery
    \/ Clause
    \/ SeqLen
    \/ SeqGetItem
    \/ SeqIter
    \/ SeqContains

Spec == Init /\ [][Next]_vars

(***************************************************************************)
(* SpecPath: one PathTreeQuery over the path column is built for a root    *)
(* path, compiled, and its clause evaluated by SQLite against stored rows. *)
(***************************************************************************)
\* All strings over PathChars of length at most n.
RECURSIVE PathsUpTo(_)
PathsUpTo(n) ==
    IF n = 0 THEN {<<>>}
    ELSE LET shorter == PathsUpTo(n - 1)
         IN  shorter \cup {Append(p, c) : p \in shorter, c \in PathChars}

RootPaths == PathsUpTo(MaxRootLen)

\* Stored paths to test against a root: a prefix of the root followed by a
\* short tail; this covers the root, its descendants, siblings sharing a
\* name prefix, ancestors and unrelated paths.
StoredPaths(r) ==
    {SubSeq(r, 1, k) \o t : k \in 0..Len(r), t \in PathsUpTo(MaxStoredLen - MaxRootLen)}

\* SQLite's substr(X, 1, N) on a BLOB: the first N bytes of X, fewer when X
\* is shorter.
sqlite_substr(x, n) == SubSeq(x, 1, IF n < Len(x) THEN n ELSE Len(x))

\* SQLite's value of "(path = ? OR substr(path, 1, ?) = ?)" for a row whose
\* path column holds the bytes row, with args bound to the placeholders.
sqlite_eval_subtree(row, args) ==
    \/ row = args[1].bytes
    \/ sqlite_substr(row, args[2].int) = args[3].bytes

InitPath ==
    /\ stack = <<>>
    /\ next_id = 1
    /\ result = NoResult
    /\ root \in RootPaths
    /\ platform = "Linux"
    /\ environ = {}
    /\ dirs = InitialDirs

NewSubtreeQuery ==
    /\ stack = <<>>
    /\ LET r == PathTreeQuery_init(next_id, PathColumn, root)
       IN  /\ r.raised = ""
           /\ stack' = <<r.self>>
           /\ next_id' = next_id + 1
           /\ result' = [op |-> "PathTreeQuery", raised |-> "", column |-> PathColumn]
    /\ UNCHANGED <<root, platform, environ, dirs>>

\* The storage engine tests the row storing path s against the compiled
\* clause and its arguments.
SelectRow ==
    /\ Len(stack) = 1
    /\ result.op = "clause"
    /\ result.raised = ""
    /\ \E s \in StoredPaths(root) :
          result' = [op |-> "select", self |-> result.self, raised |-> "",
                     text |-> result.text, args |-> result.args,
                     stored |-> s,
                     value |-> sqlite_eval_subtree(fsencode(s), result.args)]
    /\ UNCHANGED <<stack, next_id, root, platform, environ, dirs>>

NextPath ==
    \/ NewSubtreeQuery
    \/ Clause
    \/ SelectRow

SpecPath == InitPath /\ [][NextPath]_vars

(***************************************************************************)
(* Platform directories (appdirs.py). A path is a sequence of names; None  *)
(* and "" are both the falsy "" here, as the code only tests truthiness.   *)
(* Each function returns the path and the directories existing afterwards. *)
(***************************************************************************)
EnvVars == {"XDG_CONFIG_HOME", "XDG_CACHE_HOME", "XDG_RUNTIME_DIR", "$XDG_DATA_DIR"}

\* The directory an environment variable names when it is set.
EnvDir(var) == <<"xdg", var>>

\* os.environ.get(var, fallback)
environ_get(env, var, fallback) == IF var \in env THEN EnvDir(var) ELSE fallback

\* os.makedirs(path, exist_ok=True): path and every missing ancestor.
os_makedirs(d, path) == d \cup {SubSeq(path, 1, k) : k \in 0..Len(path)}

\* The common tail of the lookup functions: attach subfolder, create the
\* folder, attach filename.
finish_path(d, base, subfolder, filename, create) ==
    LET folder == IF subfolder # "" THEN Append(base, subfolder) ELSE base
    IN  [value |-> IF filename # "" THEN Append(folder, filename) ELSE folder,
         dirs |-> IF create THEN os_makedirs(d, folder) ELSE d]

get_conf_path(sys, env, d, subfolder, filename, create) ==
    LET conf_path ==
            IF sys = "Darwin"
            THEN HomeDir \o <<"Library", "Application Support">>
            ELSE environ_get(env, "XDG_CONFIG_HOME", HomeDir \o <<".config">>)
    IN  finish_path(d, conf_path, subfolder, filename, create)

get_log_path(sys, env, d, subfolder, filename, create) ==
    LET log_path ==
            IF sys = "Darwin"
            THEN HomeDir \o <<"Library", "Logs">>
            ELSE environ_get(env, "XDG_CACHE_HOME", HomeDir \o <<".cache">>)
    IN  finish_path(d, log_path, subfolder, filename, create)

get_cache_path(sys, env, d, subfolder, filename, create) ==
    IF sys = "Darwin"
    THEN get_conf_path(sys, env, d, subfolder, filename, create)
    ELSE get_log_path(sys, env, d, subfolder, filename, create)

get_autostart_path(sys, env, d, filename, create) ==
    LET folder ==
            IF sys = "Darwin"
            THEN [value |-> HomeDir \o <<"Library", "LaunchAgents">>, dirs |-> d]
            ELSE get_conf_path(sys, env, d, "autostart", "", create)
    IN  [value |-> IF filename # "" THEN Append(folder.value, filename)
                   ELSE folder.value,
         dirs |-> folder.dirs]

\* Off macOS the fallback get_cache_path() is evaluated, with its default
\* create=True, before XDG_RUNTIME_DIR is looked up.
get_runtime_path(sys, env, d, subfolder, filename, create) ==
    IF sys = "Darwin"
    THEN finish_path(d, TmpDir, subfolder, filename, create)
    ELSE LET fallback == get_cache_path(sys, env, d, "", "", TRUE)
         IN  finish_path(fallback.dirs,
                         environ_get(env, "XDG_RUNTIME_DIR", fallback.value),
                         subfolder, filename, create)

get_state_path(sys, env, d, subfolder, filename, create) ==
    LET state_path ==
            IF sys = "Darwin"
            THEN HomeDir \o <<"Library", "Application Support">>
            ELSE environ_get(env, "$XDG_DATA_DIR", HomeDir \o <<".local", "share">>)
    IN  finish_path(d, state_path, subfolder, filename, create)

(***************************************************************************)
(* SpecDirs: the lookup functions are called in any order on a machine     *)
(* whose platform and environment are fixed at start.                      *)
(***************************************************************************)
Subfolders == {"", "maestral"}
Filenames == {"", "maestral.ini"}
DirOps == {"get_conf_path", "get_log_path", "get_cache_path",
           "get_autostart_path", "get_runtime_path", "get_state_path"}

InitDirs ==
    /\ stack = <<>>
    /\ next_id = 1
    /\ result = NoResult
    /\ root = <<>>
    /\ platform \in {"Darwin", "Linux"}
    /\ environ \in SUBSET EnvVars
    /\ dirs = InitialDirs

Returned(op, subfolder, filename, create, r) ==
    /\ result' = [op |-> op, raised |-> "", subfolder |-> subfolder,
                  filename |-> filename, create |-> create, value |-> r.value]
    /\ dirs' = r.dirs
    /\ UNCHANGED <<stack, next_id, root, platform, environ>>

GetConfPath ==
    \E subfolder \in Subfolders, filename \in Filenames, create \in BOOLEAN :
        Returned("get_conf_path", subfolder, filename, create,
                 get_conf_path(platform, environ, dirs, subfolder, filename, create))

GetLogPath ==
    \E subfolder \in Subfolders, filename \in Filenames, create \in BOOLEAN :
        Returned("get_log_path", subfolder, filename, create,
                 get_log_path(platform, environ, dirs, subfolder, filename, create))

GetCachePath ==
    \E subfolder \in Subfolders, filename \in Filenames, create \in BOOLEAN :
        Returned("get_cache_path", subfolder, filename, create,
                 get_cache_path(platform, environ, dirs, subfolder, filename, create))

GetAutostartPath ==
    \E filename \in Filenames, create \in BOOLEAN :
        Returned("get_autostart_path", "", filename, create,
                 get_autostart_path(platform, environ, dirs, filename, create))

GetRuntimePath ==
    \E subfolder \in Subfolders, filename \in Filenames, create \in BOOLEAN :
        Returned("get_runtime_path", subfolder, filename, create,
                 get_runtime_path(platform, environ, dirs, subfolder, filename, create))

GetStatePath ==
    \E subfolder \in Subfolders, filename \in Filenames, create \in BOOLEAN :
        Returned("get_state_path", subfolder, filename, create,
                 get_state_path(platform, environ, dirs, subfolder, filename, create))

NextDirs ==
    \/ GetConfPath
    \/ GetLogPath
    \/ GetCachePath
    \/ GetAutostartPath
    \/ GetRuntimePath
    \/ GetStatePath

SpecDirs == InitDirs /\ [][NextDirs]_vars

\* C10: a lookup called with create=False leaves the set of existing
\* directories unchanged, on every platform and for every setting of the
\* XDG environment variables.
C10_CreateFalseLeavesDirsUnchanged ==
    [][(result'.op \in DirOps /\ result'.create = FALSE) => dirs' = dirs]_vars

(***************************************************************************)
(* Vocabulary of the properties                                            *)
(***************************************************************************)
ConcreteKinds == {"AllQuery", "MatchQuery", "PathTreeQuery",
                  "AndQuery", "OrQuery", "NotQuery"}

Children(q) ==
    IF q.kind \in CollectionKinds THEN q.subqueries
    ELSE IF q.kind = "NotQuery" THEN <<q.subquery>>
    ELSE <<>>

\* Every object of the tree, the root included.
RECURSIVE AllNodes(_)
AllNodes(q) ==
    {q} \cup UNION {AllNodes(Children(q)[i]) : i \in 1..Len(Children(q))}

\* The tree holds instances of the six concrete predicate classes only.
IsConcrete(q) == \A n \in AllNodes(q) : n.kind \in ConcreteKinds

\* The number of places at which the string sub occurs in text.
CountSub(text, sub) ==
    Cardinality({i \in 1..(Len(text) - Len(sub) + 1) :
                    SubSeq(text, i, i + Len(sub) - 1) = sub})

\* The arguments the leaves of a tree produce, leaves taken left to right.
RECURSIVE LeafArgs(_)
RECURSIVE LeafArgsAll(_)
LeafArgs(q) ==
    CASE q.kind = "MatchQuery" -> <<py_to_sql(q.column, q.value)>>
      [] q.kind = "PathTreeQuery" ->
            <<[bytes |-> q.file_blob], [int |-> Len(q.dir_blob)],
              [bytes |-> q.dir_blob]>>
      [] OTHER -> LeafArgsAll(Children(q))
LeafArgsAll(qs) ==
    IF qs = <<>> THEN <<>> ELSE LeafArgs(Head(qs)) \o LeafArgsAll(Tail(qs))

\* For each of those arguments, the name of the column of its leaf.
RECURSIVE LeafOwners(_)
RECURSIVE LeafOwnersAll(_)
LeafOwners(q) ==
    CASE q.kind = "MatchQuery" -> <<q.column.name>>
      [] q.kind = "PathTreeQuery" -> <<q.column.name, q.column.name, q.column.name>>
      [] OTHER -> LeafOwnersAll(Children(q))
LeafOwnersAll(qs) ==
    IF qs = <<>> THEN <<>> ELSE LeafOwners(Head(qs)) \o LeafOwnersAll(Tail(qs))

\* For each "?" of a clause text, left to right, the column name that
\* precedes it most closely in the text.
ColumnNames == {c.name : c \in Columns}
NamesAt(text, i) ==
    {n \in ColumnNames : i + Len(n) - 1 <= Len(text) /\ SubSeq(text, i, i + Len(n) - 1) = n}
RECURSIVE PlaceholderOwnersFrom(_, _, _)
PlaceholderOwnersFrom(text, i, current) ==
    IF i > Len(text) THEN <<>>
    ELSE IF SubSeq(text, i, i) = "?"
    THEN <<current>> \o PlaceholderOwnersFrom(text, i + 1, current)
    ELSE IF NamesAt(text, i) # {}
    THEN PlaceholderOwnersFrom(text, i + 1, CHOOSE n \in NamesAt(text, i) : TRUE)
    ELSE PlaceholderOwnersFrom(text, i + 1, current)
PlaceholderOwners(text) == PlaceholderOwnersFrom(text, 1, "")

Compiled == result.op = "clause" /\ result.raised = ""

(***************************************************************************)
(* Properties of clause() under Spec                                       *)
(***************************************************************************)
\* And(PathTree(path, "/sync/docs"), Not(Match(size, 0)))
IsEndToEndTree(q) ==
    /\ q.kind = "AndQuery"
    /\ Len(q.subqueries) = 2
    /\ q.subqueries[1].kind = "PathTreeQuery"
    /\ q.subqueries[1].column = PathColumn
    /\ q.subqueries[1].file_blob = <<47, 115, 121, 110, 99, 47, 100, 111, 99, 115>>
    /\ q.subqueries[2].kind = "NotQuery"
    /\ q.subqueries[2].subquery.kind = "MatchQuery"
    /\ q.subqueries[2].subquery.column = SizeColumn
    /\ q.subqueries[2].subquery.value = 0

EndToEndArgs ==
    <<[bytes |-> <<47, 115, 121, 110, 99, 47, 100, 111, 99, 115>>],
      [int |-> 11],
      [bytes |-> <<47, 115, 121, 110, 99, 47, 100, 111, 99, 115, 47>>],
      py_to_sql(SizeColumn, 0)>>

\* C1 as stated: the end-to-end tree compiles to
\* "((path = ? OR substr(path, 1, ?) = ?)) AND (not ((size = ?)))" with the
\* four arguments exact-path bytes, prefix length, prefix bytes, converted 0.
C1_EndToEndAsStated ==
    (result.op = "clause" /\ IsEndToEndTree(result.self)) =>
        /\ result.raised = ""
        /\ result.text = "((path = ? OR substr(path, 1, ?) = ?)) AND (not ((size = ?)))"
        /\ result.args = EndToEndArgs

\* C1 amended: the end-to-end tree compiles to
\* "((path = ? OR substr(path, 1, ?) = ?)) AND (not (size = ?))" (the Match
\* clause is parenthesised once, by Not) with the same four arguments.
C1_EndToEnd ==
    (result.op = "clause" /\ IsEndToEndTree(result.self)) =>
        /\ result.raised = ""
        /\ result.text = "((path = ? OR substr(path, 1, ?) = ?)) AND (not (size = ?))"
        /\ result.args = EndToEndArgs

C1_Witness ==
    /\ result.op = "clause"
    /\ IsEndToEndTree(result.self)
    /\ Len(result.args) = 4

\* C2: for every tree of the six concrete classes, clause() returns as many
\* arguments as its text has "?" placeholders, and the i-th argument is the
\* one of the leaf owning the i-th placeholder, counted left to right.
C2_ArgumentsMatchPlaceholders ==
    (Compiled /\ IsConcrete(result.self)) =>
        /\ Len(result.args) = CountSub(result.text, "?")
        /\ result.args = LeafArgs(result.self)
        /\ PlaceholderOwners(result.text) = LeafOwners(result.self)

C2_Witness ==
    /\ Compiled
    /\ IsConcrete(result.self)
    /\ result.self.kind = "OrQuery"
    /\ Len(result.self.subqueries) = 2
    /\ result.self.subqueries[1].kind = "MatchQuery"
    /\ result.self.subqueries[2].kind = "PathTreeQuery"
    /\ Len(result.args) = 4

\* The text and arguments clause_with_joiner is to return for children
\* whose own clause() returned.
RECURSIVE JoinedText(_, _, _)
JoinedText(children, i, joiner) ==
    IF i > Len(children) THEN ""
    ELSE (IF i > 1 THEN " " \o joiner \o " " ELSE "")
         \o "(" \o clause(children[i]).text \o ")"
         \o JoinedText(children, i + 1, joiner)
RECURSIVE JoinedArgs(_, _)
JoinedArgs(children, i) ==
    IF i > Len(children) THEN <<>>
    ELSE clause(children[i]).args \o JoinedArgs(children, i + 1)
RECURSIVE SumCountSub(_, _, _)
SumCountSub(children, i, sub) ==
    IF i > Len(children) THEN 0
    ELSE CountSub(clause(children[i]).text, sub) + SumCountSub(children, i + 1, sub)

Joiner(q) == IF q.kind = "AndQuery" THEN "AND" ELSE "OR"

\* C5: AndQuery/OrQuery with children c1..cn return the children's clause
\* texts, each in parentheses, joined in child order by " AND " / " OR ",
\* which adds n groups and n-1 joiners to those of the children, and the
\* concatenation of the children's arguments; for n = 0 an empty text and no
\* arguments. clause() raises exactly when a child's clause() raises.
C5_JoinedClause ==
    (result.op = "clause" /\ result.self.kind \in {"AndQuery", "OrQuery"}) =>
        LET cs == result.self.subqueries
            n == Len(cs)
            kw == " " \o Joiner(result.self) \o " "
        IN  /\ result.raised # "" <=> \E i \in 1..n : clause(cs[i]).raised # ""
            /\ result.raised = "" =>
                /\ result.text = JoinedText(cs, 1, Joiner(result.self))
                /\ result.args = JoinedArgs(cs, 1)
                /\ CountSub(result.text, "(") = n + SumCountSub(cs, 1, "(")
                /\ CountSub(result.text, kw) =
                      (IF n = 0 THEN 0 ELSE n - 1) + SumCountSub(cs, 1, kw)
                /\ n = 0 => result.text = "" /\ result.args = <<>>

C5_Witness ==
    /\ Compiled
    /\ result.self.kind = "AndQuery"
    /\ Len(result.self.subqueries) = 3
    /\ CountSub(result.text, " AND ") = 2

\* C6: NotQuery.clause() returns "not (<child clause>)" with the child's
\* arguments when the child's clause text is non-empty, and the empty text
\* with the child's arguments when it is empty; Not(All) gives "not (TRUE)"
\* and no arguments.
C6_NotClause ==
    (result.op = "clause" /\ result.self.kind = "NotQuery") =>
        LET sub == clause(result.self.subquery)
        IN  /\ result.raised = sub.raised
            /\ (sub.raised = "" /\ sub.text # "") =>
                  /\ result.text = "not (" \o sub.text \o ")"
                  /\ result.args = sub.args
            /\ (sub.raised = "" /\ sub.text = "") =>
                  /\ result.text = ""
                  /\ result.args = sub.args
            /\ result.self.subquery.kind = "AllQuery" =>
                  /\ result.text = "not (TRUE)"
                  /\ result.args = <<>>

C6_Witness ==
    /\ Compiled
    /\ result.self.kind = "NotQuery"
    /\ result.self.subquery.kind = "OrQuery"
    /\ result.self.subquery.subqueries = <<>>
    /\ result.text = ""

C8_ClauseNeverRaises ==
    result.op = "clause" => result.raised = ""

\* C8 amended: clause() returns for every tree of the six concrete classes,
\* and raises NotImplementedError exactly for the trees that hold a directly
\* instantiated Query or CollectionQuery.
C8_ClauseRaisesOnlyForAbstract ==
    result.op = "clause" =>
        /\ result.raised = "" <=> IsConcrete(result.self)
        /\ result.raised # "" => result.raised = "NotImplementedError"

C8_Witness ==
    /\ result.op = "clause"
    /\ result.raised = "NotImplementedError"
    /\ result.self.kind = "AndQuery"
    /\ Len(result.self.subqueries) = 2

SeqOps == {"__len__", "__getitem__", "__iter__", "__contains__"}

\* What C9 says of length, indexed get and iteration, and that no call of
\* the sequence protocol changes the collection.
\* The latest call was op on an AndQuery or OrQuery over concrete predicates.
OnAndOr(op) ==
    /\ result.op = op
    /\ result.self.kind \in {"AndQuery", "OrQuery"}
    /\ IsConcrete(result.self)

SequenceAccess ==
    /\ \A op \in SeqOps : OnAndOr(op) => stack[1] = result.self
    /\ OnAndOr("__len__") => result.value = Len(result.self.subqueries)
    /\ (OnAndOr("__getitem__") /\ result.key >= 0
            /\ result.key < Len(result.self.subqueries)) =>
          /\ result.raised = ""
          /\ result.value = <<result.self.subqueries[result.key + 1]>>
    /\ OnAndOr("__iter__") => result.value = result.self.subqueries

\* C9 as stated: membership is true exactly when the predicate is
\* structurally identical to one of the children.
C9_MembershipStructural ==
    /\ SequenceAccess
    /\ (OnAndOr("__contains__") /\ IsConcrete(result.item)) =>
          (result.value <=>
              \E i \in 1..Len(result.self.subqueries) :
                  Shape(result.self.subqueries[i]) = Shape(result.item))

\* C9 amended: length, indexed get and iteration reflect the children in
\* construction order and change nothing; membership is true exactly when
\* the predicate is the same object as one of the children.
C9_MembershipByIdentity ==
    /\ SequenceAccess
    /\ (OnAndOr("__contains__") /\ IsConcrete(result.item)) =>
          (result.value <=>
              \E i \in 1..Len(result.self.subqueries) :
                  result.self.subqueries[i].id = result.item.id)

C9_Witness ==
    /\ OnAndOr("__contains__")
    /\ IsConcrete(result.item)
    /\ result.value = FALSE
    /\ \E i \in 1..Len(result.self.subqueries) :
          Shape(result.self.subqueries[i]) = Shape(result.item)

(***************************************************************************)
(* Properties of PathTreeQuery under SpecPath                              *)
(***************************************************************************)
\* The names of a path between separators, empty names dropped.
RECURSIVE ComponentsFrom(_, _, _)
ComponentsFrom(p, i, name) ==
    LET done == IF name = <<>> THEN <<>> ELSE <<name>>
    IN  IF i > Len(p) THEN done
        ELSE IF p[i] = Sep THEN done \o ComponentsFrom(p, i + 1, <<>>)
        ELSE ComponentsFrom(p, i + 1, Append(name, p[i]))
Components(p) == ComponentsFrom(p, 1, <<>>)

IsAbsolute(p) == p # <<>> /\ p[1] = Sep

IsPrefix(a, b) == Len(a) <= Len(b) /\ SubSeq(b, 1, Len(a)) = a

\* s names the directory r or something below it.
IsSelfOrDescendant(s, r) ==
    /\ IsAbsolute(s) <=> IsAbsolute(r)
    /\ IsPrefix(Components(r), Components(s))

\* A path as the sync engine stores it: not empty, no empty name, and no
\* trailing separator except in "/" itself.
IsNormalForm(p) ==
    /\ p # <<>>
    /\ p = <<Sep>> \/ p[Len(p)] # Sep
    /\ \A i \in 1..(Len(p) - 1) : ~(p[i] = Sep /\ p[i + 1] = Sep)

SubtreeText == "(path = ? OR substr(path, 1, ?) = ?)"

\* The bytes of a str hold one byte per ASCII character and two per
\* character of PathChars above U+007F.
EncodedLen(path) == Len(path) + Cardinality({i \in 1..Len(path) : path[i] >= 128})

\* C3 as stated: dir_bytes is file_bytes with the separator appended, for
\* every path, the empty path and paths ending with the separator included.
C3_SeparatorAlwaysAppended ==
    result.op = "clause" =>
        LET file == fsencode(root)
        IN  /\ result.text = SubtreeText
            /\ result.args = <<[bytes |-> file], [int |-> Len(file) + 1],
                               [bytes |-> file \o <<Sep>>]>>

\* C3 amended: clause() returns the subtree text and the arguments
\* [file_bytes, length(dir_bytes), dir_bytes], where dir_bytes is file_bytes
\* with the separator appended, except that dir_bytes is file_bytes itself
\* when the path is empty or already ends with the separator.
C3_SubtreeClause ==
    result.op = "clause" =>
        LET file == fsencode(root)
            dir == IF root = <<>> \/ root[Len(root)] = Sep
                   THEN file ELSE file \o <<Sep>>
        IN  /\ result.raised = ""
            /\ result.text = SubtreeText
            /\ Len(file) = EncodedLen(root)
            /\ result.args = <<[bytes |-> file], [int |-> Len(dir)], [bytes |-> dir]>>

\* "/a/" is compiled: the prefix is the three bytes of the path itself.
C3_Witness ==
    /\ result.op = "clause"
    /\ root = <<47, 97, 47>>
    /\ result.args[2] = [int |-> 3]
    /\ result.args[3] = [bytes |-> <<47, 97, 47>>]

\* What the claim says of the root "/a/b".
SubtreeExample ==
    (result.op = "select" /\ root = <<47, 97, 47, 98>>) =>
        /\ result.stored = <<47, 97, 47, 98>> => result.value
        /\ result.stored = <<47, 97, 47, 98, 47, 99>> => result.value
        /\ result.stored = <<47, 97, 47, 98, 99>> => ~result.value

\* C4 as stated: for every root r and stored path s, s satisfies the
\* compiled condition exactly when s is r or a descendant of r.
C4_SubtreeOfEveryRoot ==
    /\ SubtreeExample
    /\ result.op = "select" =>
          (result.value <=> IsSelfOrDescendant(result.stored, root))

\* C4 amended: for every root r and stored path s in normal form (not
\* empty, no empty name, no trailing separator except "/" itself), s
\* satisfies the compiled condition exactly when s is r or a descendant of
\* r; for r = "/a/b", "/a/b" and "/a/b/c" match and "/a/bc" does not.
C4_SubtreeOfNormalRoot ==
    /\ SubtreeExample
    /\ (result.op = "select" /\ IsNormalForm(root) /\ IsNormalForm(result.stored)) =>
          (result.value <=> IsSelfOrDescendant(result.stored, root))

C4_Witness ==
    /\ result.op = "select"
    /\ root = <<47, 97, 47, 98>>
    /\ result.stored = <<47, 97, 47, 98, 99>>
    /\ result.value = FALSE

====
